---- MODULE Spec2Model ----
(***************************************************************************)
(* Model of the multi-stream BigQuery Storage download engine of           *)
(* google/cloud/bigquery/_pandas_helpers.py: the generator                 *)
(* _download_table_bqstorage (the fan-in coordinator), the worker function *)
(* _download_table_bqstorage_stream (one per stream, run by a              *)
(* ThreadPoolExecutor), the shared _DownloadState flag and the relay       *)
(* queue.Queue.                                                            *)
(*                                                                         *)
(* The coordinator is a Python generator: its code runs only while the     *)
(* caller is inside next() or close(); at a yield the caller has control.  *)
(* Workers are threads and interleave freely with the coordinator.         *)
(***************************************************************************)
EXTENDS Integers, Sequences, FiniteSets, TLC

(***************************************************************************)
(* Bounds of the model.                                                    *)
(***************************************************************************)
MaxStreams == 2
MaxPages == 2
MaxTotalPages == 4
MaxQueueSize == 2
MaxIdLen == 2

VARIABLES
    table_id,          \* table.table_id, a string as a sequence of characters
    preserve_order,    \* argument preserve_order
    max_queue_size,    \* argument max_queue_size
    pc,                \* position of the generator _download_table_bqstorage
    pending,           \* why the finally block is running
    outcome,           \* what the caller saw when the generator ended
    raised,            \* the stream whose captured error was re-raised, or 0
    requested_streams, \* local requested_streams, -1 before line 636
    session_calls,     \* number of create_read_session calls made
    streams,           \* session.streams
    pages,             \* number of pages each stream serves
    download_state,    \* the _DownloadState object
    worker_queue,      \* the queue.Queue object
    workers,           \* the submitted futures / worker threads, by stream
    not_done,          \* local not_done, the list of unfinished futures
    nowait,            \* the running _nowait call: its iterator and two lists
    delivered          \* the frames yielded to the caller so far, in order

vars == <<table_id, preserve_order, max_queue_size, pc, pending, outcome,
          raised, requested_streams, session_calls, streams, pages,
          download_state, worker_queue, workers, not_done, nowait,
          delivered>>

(***************************************************************************)
(* Input domains.                                                          *)
(***************************************************************************)
Chars == {"t", "$", "@"}

RECURSIVE StringsOfLen(_)
StringsOfLen(n) ==
    IF n = 0 THEN {<<>>}
    ELSE {Append(s, c) : s \in StringsOfLen(n - 1), c \in Chars}

\* table ids of MaxIdLen characters: plain, partition- and snapshot-qualified
TableIds == StringsOfLen(MaxIdLen)

\* _MAX_QUEUE_SIZE_DEFAULT is a sentinel object, None is None, anything else
\* is handed to queue.Queue as it is.
MAX_QUEUE_SIZE_DEFAULT == [kind |-> "default", val |-> 0]
None == [kind |-> "none", val |-> 0]
IntArg(n) == [kind |-> "int", val |-> n]

MaxQueueSizeArgs ==
    {MAX_QUEUE_SIZE_DEFAULT, None} \cup {IntArg(n) : n \in 1..MaxQueueSize}

(***************************************************************************)
(* Helpers: strings, items, the queue.Queue operations the code uses.      *)
(***************************************************************************)
\* Python's  c in string  for a one-character c.
Contains(string, c) == \E i \in 1..Len(string) : string[i] = c

\* A variant that tests for the partition qualifier only.
HasQualifierPartitionOnly(id) == Contains(id, "$")

\* Lines 629-634: the two precondition tests on table.table_id.
HasQualifier(id) == Contains(id, "$") \/ Contains(id, "@")

\* A variant that leaves the stream count to the server in either mode.
RequestedStreamsAny(po) == 0

\* Line 636: requested_streams = 1 if preserve_order else 0
RequestedStreams(po) == IF po THEN 1 ELSE 0

\* The stream counts create_read_session may answer with. max_stream_count
\* is handed to the service (line 653) and the answer is taken as it is:
\* nothing in the code compares len(session.streams) with what it asked for.
StreamCounts(max_stream_count) == 0..MaxStreams

\* A variant without the early return for an empty session.
SessionEmptyIgnored(strs) == FALSE

\* Line 663: not session.streams
SessionEmpty(strs) == Len(strs) = 0

\* A variant in which the default is an unbounded queue.
QueueMaxsizeUnboundedDefault(arg, total_streams) ==
    IF arg = MAX_QUEUE_SIZE_DEFAULT THEN 0
    ELSE IF arg = None THEN 0
    ELSE arg.val

\* A variant that silently turns a capacity below 1 into 1.
QueueMaxsizeClamped(arg, total_streams) ==
    IF arg = MAX_QUEUE_SIZE_DEFAULT THEN total_streams
    ELSE IF arg = None THEN 0
    ELSE IF arg.val < 1 THEN 1 ELSE arg.val

\* A variant that gives a queue of one slot when None is passed.
QueueMaxsizeNoneAsOne(arg, total_streams) ==
    IF arg = MAX_QUEUE_SIZE_DEFAULT THEN total_streams
    ELSE IF arg = None THEN 1
    ELSE arg.val

\* Lines 678-681: the maxsize handed to queue.Queue.
QueueMaxsize(arg, total_streams) ==
    IF arg = MAX_QUEUE_SIZE_DEFAULT THEN total_streams
    ELSE IF arg = None THEN 0
    ELSE arg.val

\* page_to_item: one page of a stream decoded into one frame.
Page(s, i) == [stream |-> s, page |-> i]
page_to_item(page) == [stream |-> page.stream, frame |-> page.page]

\* A variant of the queue that reports full one item too late.
QueueFullOffByOne(q) == q.maxsize > 0 /\ Len(q.items) > q.maxsize

\* A variant of the queue that is never full (put never blocks).
QueueNeverFull(q) == FALSE

\* queue.Queue: full only when maxsize > 0 and that many items are held.
QueueFull(q) == q.maxsize > 0 /\ Len(q.items) >= q.maxsize
QueueEmpty(q) == Len(q.items) = 0

\* A variant of put that inserts at the head (a LIFO queue).
QueuePutFront(q, item) == [q EXCEPT !.items = <<item>> \o @]

\* put appends at the tail, get removes the head (FIFO).
QueuePut(q, item) == [q EXCEPT !.items = Append(@, item)]
QueueHead(q) == Head(q.items)
QueueGet(q) == [q EXCEPT !.items = Tail(@)]

\* future.done(): the worker returned or raised.
Terminal(w) == w.pc \in {"finished", "failed"}
FutureDone(s) == Terminal(workers[s])

\* No _nowait call is running.
NowaitIdle == [futures |-> <<>>, done |-> <<>>, not_done |-> <<>>]

\* Lines 604-606: _nowait is entered, its two lists are empty and the for
\* loop has all of futures before it.
NowaitEnter(futures) == [futures |-> futures, done |-> <<>>, not_done |-> <<>>]

\* A variant of the loop body that loses the finished futures.
NowaitPollDropsDone(nw) ==
    IF FutureDone(Head(nw.futures))
    THEN [nw EXCEPT !.futures = Tail(@)]
    ELSE [nw EXCEPT !.futures = Tail(@),
                    !.not_done = Append(@, Head(nw.futures))]

\* Lines 606-610: one turn of the for loop, future.done() of the next
\* future read at that instant.
NowaitPoll(nw) ==
    IF FutureDone(Head(nw.futures))
    THEN [nw EXCEPT !.futures = Tail(@),
                    !.done = Append(@, Head(nw.futures))]
    ELSE [nw EXCEPT !.futures = Tail(@),
                    !.not_done = Append(@, Head(nw.futures))]

\* A variant that never calls result() on the finished futures.
FirstFailedIgnored(done) == 0

\* Lines 712-715: the first finished future whose result() raises, or 0.
RECURSIVE FirstFailed(_)
FirstFailed(done) ==
    IF Len(done) = 0 THEN 0
    ELSE IF workers[Head(done)].pc = "failed" THEN Head(done)
    ELSE FirstFailed(Tail(done))

\* A variant of the shutdown that does not wait (wait=False everywhere).
PoolNoWait == TRUE

\* pool.shutdown(wait=True) returns once every worker thread has ended.
PoolQuiescent == \A s \in DOMAIN workers : Terminal(workers[s])

(***************************************************************************)
(* Initial state: the generator object exists, none of its code has run.   *)
(***************************************************************************)
Init ==
    /\ table_id \in TableIds
    /\ preserve_order \in BOOLEAN
    /\ max_queue_size \in MaxQueueSizeArgs
    /\ pc = "start"
    /\ pending = "none"
    /\ outcome = "none"
    /\ raised = 0
    /\ requested_streams = -1
    /\ session_calls = 0
    /\ streams = <<>>
    /\ pages = <<>>
    /\ download_state = [created |-> FALSE, done |-> FALSE]
    /\ worker_queue = [created |-> FALSE, maxsize |-> 0, items |-> <<>>]
    /\ workers = <<>>
    /\ not_done = <<>>
    /\ nowait = NowaitIdle
    /\ delivered = <<>>

(***************************************************************************)
(* The caller.                                                             *)
(***************************************************************************)
AtYield == pc \in {"yield_loop", "yield_drain"}

\* First next(): the generator body starts running.
CallerStart ==
    /\ pc = "start"
    /\ pc' = "validate"
    /\ UNCHANGED <<table_id, preserve_order, max_queue_size, pending, outcome,
                   raised, requested_streams, session_calls, streams, pages,
                   download_state, worker_queue, workers, not_done, nowait,
                   delivered>>

\* A variant in which the loop keeps taking from the queue after a yield
\* and sweeps the futures again only after a timeout.
CallerNextToGet ==
    /\ AtYield
    /\ pc' = IF pc = "yield_loop" THEN "get" ELSE "drain"
    /\ UNCHANGED <<table_id, preserve_order, max_queue_size, pending, outcome,
                   raised, requested_streams, session_calls, streams, pages,
                   download_state, worker_queue, workers, not_done, nowait,
                   delivered>>

\* next() at a yield: line 719 falls through to the while test of line 704,
\* line 727 to the next turn of the while True loop.
CallerNext ==
    /\ AtYield
    /\ pc' = IF pc = "yield_loop" THEN "sweep" ELSE "drain"
    /\ UNCHANGED <<table_id, preserve_order, max_queue_size, pending, outcome,
                   raised, requested_streams, session_calls, streams, pages,
                   download_state, worker_queue, workers, not_done, nowait,
                   delivered>>

\* close() at a yield: GeneratorExit is raised there and the finally block
\* of line 730 runs.
CallerClose ==
    /\ AtYield
    /\ pc' = "finally"
    /\ pending' = "close"
    /\ UNCHANGED <<table_id, preserve_order, max_queue_size, outcome,
                   raised, requested_streams, session_calls, streams, pages,
                   download_state, worker_queue, workers, not_done, nowait,
                   delivered>>

\* close() on a generator that never started runs none of its code.
CallerCloseUnstarted ==
    /\ pc = "start"
    /\ pc' = "exited"
    /\ outcome' = "closed"
    /\ UNCHANGED <<table_id, preserve_order, max_queue_size, pending,
                   raised, requested_streams, session_calls, streams, pages,
                   download_state, worker_queue, workers, not_done, nowait,
                   delivered>>

(***************************************************************************)
(* The coordinator, _download_table_bqstorage.                             *)
(***************************************************************************)
\* Lines 629-634.
Validate ==
    /\ pc = "validate"
    /\ IF HasQualifier(table_id)
       THEN pc' = "exited" /\ outcome' = "ValueError"
       ELSE pc' = "negotiate" /\ UNCHANGED outcome
    /\ UNCHANGED <<table_id, preserve_order, max_queue_size, pending,
                   raised, requested_streams, session_calls, streams, pages,
                   download_state, worker_queue, workers, not_done, nowait,
                   delivered>>

\* The number of pages of the first n streams of a session.
RECURSIVE TotalPages(_, _)
TotalPages(k, n) == IF n = 0 THEN 0 ELSE k[n] + TotalPages(k, n - 1)

\* Lines 636-664: create_read_session answers with n streams of k[s] pages
\* (a table of MaxTotalPages pages at most); an empty session ends the
\* generator.
Negotiate ==
    /\ pc = "negotiate"
    /\ requested_streams' = RequestedStreams(preserve_order)
    /\ session_calls' = session_calls + 1
    /\ \E n \in StreamCounts(requested_streams') :
         \E k \in [1..n -> 0..MaxPages] :
            /\ TotalPages(k, n) <= MaxTotalPages
            /\ streams' = [i \in 1..n |-> i]
            /\ pages' = k
    /\ IF SessionEmpty(streams')
       THEN pc' = "exited" /\ outcome' = "stop"
       ELSE pc' = "spawn" /\ UNCHANGED outcome
    /\ UNCHANGED <<table_id, preserve_order, max_queue_size, pending, raised,
                   download_state, worker_queue, workers, not_done, nowait,
                   delivered>>

\* A variant in which the flag and the queue are set up before the session
\* is requested.
NegotiateFailAfterSetup ==
    /\ pc = "negotiate"
    /\ requested_streams' = RequestedStreams(preserve_order)
    /\ session_calls' = session_calls + 1
    /\ download_state' = [created |-> TRUE, done |-> FALSE]
    /\ worker_queue' = [created |-> TRUE, maxsize |-> 0, items |-> <<>>]
    /\ pc' = "exited"
    /\ outcome' = "session_error"
    /\ UNCHANGED <<table_id, preserve_order, max_queue_size, pending, raised,
                   streams, pages, workers, not_done, nowait,
                   delivered>>

\* Lines 650-654 when create_read_session raises.
NegotiateFail ==
    /\ pc = "negotiate"
    /\ requested_streams' = RequestedStreams(preserve_order)
    /\ session_calls' = session_calls + 1
    /\ pc' = "exited"
    /\ outcome' = "session_error"
    /\ UNCHANGED <<table_id, preserve_order, max_queue_size, pending, raised,
                   streams, pages, download_state, worker_queue, workers,
                   not_done, nowait, delivered>>

\* A variant that submits a worker for the first stream only.
SpawnFirstOnly ==
    /\ pc = "spawn"
    /\ download_state' = [created |-> TRUE, done |-> FALSE]
    /\ worker_queue' = [created |-> TRUE,
                        maxsize |-> QueueMaxsize(max_queue_size, Len(streams)),
                        items |-> <<>>]
    /\ workers' = [i \in 1..1 |->
                     [stream |-> streams[i], pc |-> "fetch", page |-> 0,
                      pushed |-> 0]]
    /\ not_done' = <<1>>
    /\ pc' = "sweep"
    /\ UNCHANGED <<table_id, preserve_order, max_queue_size, pending, outcome,
                   raised, requested_streams, session_calls, streams, pages,
                   nowait, delivered>>

\* Lines 666-702: the flag, the queue, the pool and one future per stream.
Spawn ==
    /\ pc = "spawn"
    /\ download_state' = [created |-> TRUE, done |-> FALSE]
    /\ worker_queue' = [created |-> TRUE,
                        maxsize |-> QueueMaxsize(max_queue_size, Len(streams)),
                        items |-> <<>>]
    /\ workers' = [i \in 1..Len(streams) |->
                     [stream |-> streams[i], pc |-> "fetch", page |-> 0,
                      pushed |-> 0]]
    /\ not_done' = [i \in 1..Len(streams) |-> i]
    /\ pc' = "sweep"
    /\ UNCHANGED <<table_id, preserve_order, max_queue_size, pending, outcome,
                   raised, requested_streams, session_calls, streams, pages,
                   nowait, delivered>>

\* Lines 606-611 and 711-715, one future polled in each step, the worker
\* threads running between two polls. After the last poll _nowait returns
\* (line 611), line 711 assigns done and not_done, and lines 712-715 call
\* result() on the futures of done: these have ended, what result() does
\* is settled.
NowaitStep(nw) ==
    IF Len(NowaitPoll(nw).futures) > 0
    THEN /\ nowait' = NowaitPoll(nw)
         /\ pc' = "nowait"
         /\ UNCHANGED <<not_done, pending, raised>>
    ELSE /\ nowait' = NowaitIdle
         /\ not_done' = NowaitPoll(nw).not_done
         /\ IF FirstFailed(NowaitPoll(nw).done) # 0
            THEN /\ raised' = FirstFailed(NowaitPoll(nw).done)
                 /\ pending' = "error"
                 /\ pc' = "finally"
            ELSE /\ pc' = "get"
                 /\ UNCHANGED <<pending, raised>>

\* Lines 704-711: the while test (on the local list); with futures left,
\* _nowait is called and polls the first of them.
Sweep ==
    /\ pc = "sweep"
    /\ IF Len(not_done) = 0
       THEN /\ pc' = "drain"
            /\ UNCHANGED <<not_done, nowait, pending, raised>>
       ELSE NowaitStep(NowaitEnter(not_done))
    /\ UNCHANGED <<table_id, preserve_order, max_queue_size, outcome,
                   requested_streams, session_calls, streams, pages,
                   download_state, worker_queue, workers, delivered>>

\* _nowait past its first poll: the next future is polled.
Nowait ==
    /\ pc = "nowait"
    /\ NowaitStep(nowait)
    /\ UNCHANGED <<table_id, preserve_order, max_queue_size, outcome,
                   requested_streams, session_calls, streams, pages,
                   download_state, worker_queue, workers, delivered>>

\* A variant of the get without the timeout: it waits for an item forever.
GetBlocking ==
    /\ pc = "get"
    /\ ~QueueEmpty(worker_queue)
    /\ delivered' = Append(delivered, QueueHead(worker_queue))
    /\ worker_queue' = QueueGet(worker_queue)
    /\ pc' = "yield_loop"
    /\ UNCHANGED <<table_id, preserve_order, max_queue_size, pending, outcome,
                   raised, requested_streams, session_calls, streams, pages,
                   download_state, workers, not_done, nowait>>

\* Lines 717-721: get(timeout=_PROGRESS_INTERVAL) returns the head as soon as
\* there is one and the frame is yielded, or times out on an empty queue.
Get ==
    /\ pc = "get"
    /\ IF QueueEmpty(worker_queue)
       THEN /\ pc' = "sweep"
            /\ UNCHANGED <<worker_queue, delivered>>
       ELSE /\ delivered' = Append(delivered, QueueHead(worker_queue))
            /\ worker_queue' = QueueGet(worker_queue)
            /\ pc' = "yield_loop"
    /\ UNCHANGED <<table_id, preserve_order, max_queue_size, pending, outcome,
                   raised, requested_streams, session_calls, streams, pages,
                   download_state, workers, not_done, nowait>>

\* A variant without the residual drain: the loop breaks at once.
DrainNothing ==
    /\ pc = "drain"
    /\ pc' = "finally"
    /\ pending' = "return"
    /\ UNCHANGED <<table_id, preserve_order, max_queue_size, outcome,
                   raised, requested_streams, session_calls, streams, pages,
                   download_state, worker_queue, workers, not_done, nowait,
                   delivered>>

\* Lines 724-729: get_nowait until queue.Empty.
Drain ==
    /\ pc = "drain"
    /\ IF QueueEmpty(worker_queue)
       THEN /\ pc' = "finally"
            /\ pending' = "return"
            /\ UNCHANGED <<worker_queue, delivered>>
       ELSE /\ delivered' = Append(delivered, QueueHead(worker_queue))
            /\ worker_queue' = QueueGet(worker_queue)
            /\ pc' = "yield_drain"
            /\ UNCHANGED pending
    /\ UNCHANGED <<table_id, preserve_order, max_queue_size, outcome,
                   raised, requested_streams, session_calls, streams, pages,
                   download_state, workers, not_done, nowait>>

\* A variant of the finally block that shuts the pool down without setting
\* the flag.
SetDoneForgotten ==
    /\ pc = "finally"
    /\ pc' = "shutdown"
    /\ UNCHANGED <<table_id, preserve_order, max_queue_size, pending, outcome,
                   raised, requested_streams, session_calls, streams, pages,
                   download_state, worker_queue, workers, not_done, nowait,
                   delivered>>

\* Line 734: download_state.done = True
SetDone ==
    /\ pc = "finally"
    /\ download_state' = [download_state EXCEPT !.done = TRUE]
    /\ pc' = "shutdown"
    /\ UNCHANGED <<table_id, preserve_order, max_queue_size, pending, outcome,
                   raised, requested_streams, session_calls, streams, pages,
                   worker_queue, workers, not_done, nowait,
                   delivered>>

\* Line 738 and the exit of the with block of line 685: the call returns
\* when the worker threads have ended, then the generator ends the way the
\* finally block was entered.
Shutdown ==
    /\ pc = "shutdown"
    /\ PoolQuiescent
    /\ pc' = "exited"
    /\ outcome' = CASE pending = "return" -> "stop"
                    [] pending = "error" -> "error"
                    [] pending = "close" -> "closed"
    /\ UNCHANGED <<table_id, preserve_order, max_queue_size, pending,
                   raised, requested_streams, session_calls, streams, pages,
                   download_state, worker_queue, workers, not_done, nowait,
                   delivered>>

(***************************************************************************)
(* A worker, _download_table_bqstorage_stream, for stream s.               *)
(***************************************************************************)
WorkerUnchanged ==
    UNCHANGED <<table_id, preserve_order, max_queue_size, pc, pending,
                outcome, raised, requested_streams, session_calls, streams,
                pages, download_state, not_done, nowait, delivered>>

\* A variant of the loop that decodes and puts every page it gets, without
\* looking at the flag.
WorkerFetchNoCheck(s) ==
    /\ s \in DOMAIN workers
    /\ workers[s].pc = "fetch"
    /\ IF workers[s].page < pages[s]
       THEN workers' = [workers EXCEPT ![s].page = @ + 1, ![s].pc = "put"]
       ELSE workers' = [workers EXCEPT ![s].pc = "finished"]
    /\ UNCHANGED worker_queue
    /\ WorkerUnchanged

\* A variant that asks the stream again after a failure (a retry).
WorkerFetchRetry(s) ==
    /\ s \in DOMAIN workers
    /\ workers[s].pc \in {"fetch", "failed"}
    /\ IF workers[s].page < pages[s]
       THEN workers' = [workers EXCEPT ![s].page = @ + 1, ![s].pc = "check"]
       ELSE workers' = [workers EXCEPT ![s].pc = "finished"]
    /\ UNCHANGED worker_queue
    /\ WorkerUnchanged

\* Line 593: the loop asks rowstream.pages for the next page; the stream
\* serves it, or is exhausted and the function returns.
WorkerFetch(s) ==
    /\ s \in DOMAIN workers
    /\ workers[s].pc = "fetch"
    /\ IF workers[s].page < pages[s]
       THEN workers' = [workers EXCEPT ![s].page = @ + 1, ![s].pc = "check"]
       ELSE workers' = [workers EXCEPT ![s].pc = "finished"]
    /\ UNCHANGED worker_queue
    /\ WorkerUnchanged

\* A variant in which a worker that fails sets the flag itself to stop its
\* siblings.
WorkerFetchFailSignals(s) ==
    /\ s \in DOMAIN workers
    /\ workers[s].pc = "fetch"
    /\ workers' = [workers EXCEPT ![s].pc = "failed"]
    /\ download_state' = [download_state EXCEPT !.done = TRUE]
    /\ UNCHANGED <<table_id, preserve_order, max_queue_size, pc, pending,
                   outcome, raised, requested_streams, session_calls, streams,
                   pages, worker_queue, not_done, nowait,
                   delivered>>

\* Lines 591-593: read_rows or the page fetch raises.
WorkerFetchFail(s) ==
    /\ s \in DOMAIN workers
    /\ workers[s].pc = "fetch"
    /\ workers' = [workers EXCEPT ![s].pc = "failed"]
    /\ UNCHANGED worker_queue
    /\ WorkerUnchanged

\* A variant of the loop body without the test of the flag.
WorkerCheckBlind(s) ==
    /\ s \in DOMAIN workers
    /\ workers[s].pc = "check"
    /\ workers' = [workers EXCEPT ![s].pc = "put"]
    /\ UNCHANGED worker_queue
    /\ WorkerUnchanged

\* Lines 594-596: if download_state.done: return; otherwise the page is
\* decoded (a computation local to the thread) and the item is ready to put.
WorkerCheck(s) ==
    /\ s \in DOMAIN workers
    /\ workers[s].pc = "check"
    /\ workers' = [workers EXCEPT ![s].pc =
                     IF download_state.done THEN "finished" ELSE "put"]
    /\ UNCHANGED worker_queue
    /\ WorkerUnchanged

\* Lines 594-596 when the flag is not set and page_to_item raises.
WorkerDecodeFail(s) ==
    /\ s \in DOMAIN workers
    /\ workers[s].pc = "check"
    /\ ~download_state.done
    /\ workers' = [workers EXCEPT ![s].pc = "failed"]
    /\ UNCHANGED worker_queue
    /\ WorkerUnchanged

\* Line 597: worker_queue.put(item) blocks while the queue is full.
WorkerPut(s) ==
    /\ s \in DOMAIN workers
    /\ workers[s].pc = "put"
    /\ ~QueueFull(worker_queue)
    /\ worker_queue' = QueuePut(worker_queue,
                                page_to_item(Page(s, workers[s].page)))
    /\ workers' = [workers EXCEPT ![s].pc = "fetch", ![s].pushed = @ + 1]
    /\ WorkerUnchanged

WorkerStep(s) ==
    \/ WorkerFetch(s)
    \/ WorkerCheck(s)
    \/ WorkerPut(s)

WorkerFault(s) ==
    \/ WorkerFetchFail(s)
    \/ WorkerDecodeFail(s)

CoordinatorStep ==
    \/ Validate
    \/ Negotiate
    \/ Spawn
    \/ Sweep
    \/ Nowait
    \/ Get
    \/ Drain
    \/ SetDone
    \/ Shutdown

Next ==
    \/ CallerStart
    \/ CallerNext
    \/ CallerClose
    \/ CallerCloseUnstarted
    \/ CoordinatorStep
    \/ NegotiateFail
    \/ \E s \in 1..MaxStreams : WorkerStep(s)
    \/ \E s \in 1..MaxStreams : WorkerFault(s)

Spec == Init /\ [][Next]_vars

\* The worker threads and the running generator keep being scheduled, and
\* the caller does not leave the generator suspended forever.
FairSpec ==
    /\ Spec
    /\ WF_vars(CoordinatorStep)
    /\ WF_vars(CallerStart)
    /\ WF_vars(CallerNext)
    /\ \A s \in 1..MaxStreams : WF_vars(WorkerStep(s))

\* The success path: no fetch or decode fails, the session is granted, and
\* the caller pulls until the sequence ends, never closing it.
NextSuccess ==
    \/ CallerStart
    \/ CallerNext
    \/ CoordinatorStep
    \/ \E s \in 1..MaxStreams : WorkerStep(s)

SuccessSpec ==
    /\ Init
    /\ [][NextSuccess]_vars
    /\ WF_vars(CoordinatorStep)
    /\ WF_vars(CallerStart)
    /\ WF_vars(CallerNext)
    /\ \A s \in 1..MaxStreams : WF_vars(WorkerStep(s))

\* Calls whose explicit max_queue_size is zero or negative.
NonPositiveArgs == {IntArg(0), IntArg(-1)}

InitOverride ==
    /\ table_id \in TableIds
    /\ preserve_order \in BOOLEAN
    /\ max_queue_size \in NonPositiveArgs
    /\ pc = "start"
    /\ pending = "none"
    /\ outcome = "none"
    /\ raised = 0
    /\ requested_streams = -1
    /\ session_calls = 0
    /\ streams = <<>>
    /\ pages = <<>>
    /\ download_state = [created |-> FALSE, done |-> FALSE]
    /\ worker_queue = [created |-> FALSE, maxsize |-> 0, items |-> <<>>]
    /\ workers = <<>>
    /\ not_done = <<>>
    /\ nowait = NowaitIdle
    /\ delivered = <<>>

OverrideSpec == InitOverride /\ [][Next]_vars

\* Calls with max_queue_size=None, with threads and generator kept scheduled.
InitUnbounded ==
    /\ table_id \in TableIds
    /\ preserve_order \in BOOLEAN
    /\ max_queue_size = None
    /\ pc = "start"
    /\ pending = "none"
    /\ outcome = "none"
    /\ raised = 0
    /\ requested_streams = -1
    /\ session_calls = 0
    /\ streams = <<>>
    /\ pages = <<>>
    /\ download_state = [created |-> FALSE, done |-> FALSE]
    /\ worker_queue = [created |-> FALSE, maxsize |-> 0, items |-> <<>>]
    /\ workers = <<>>
    /\ not_done = <<>>
    /\ nowait = NowaitIdle
    /\ delivered = <<>>

UnboundedSpec ==
    /\ InitUnbounded
    /\ [][Next]_vars
    /\ WF_vars(CoordinatorStep)
    /\ WF_vars(CallerStart)
    /\ WF_vars(CallerNext)
    /\ \A s \in 1..MaxStreams : WF_vars(WorkerStep(s))

(***************************************************************************)
(* Vocabulary of the properties.                                           *)
(***************************************************************************)
Item(s, i) == [stream |-> s, frame |-> i]

RECURSIVE SumPages(_)
SumPages(n) == IF n = 0 THEN 0 ELSE pages[n] + SumPages(n - 1)

AllItems == {Item(s, i) : s \in DOMAIN pages, i \in 1..MaxPages} \cap
            {it \in [stream : DOMAIN pages, frame : 1..MaxPages] :
                it.frame <= pages[it.stream]}

DeliveredSet == {delivered[i] : i \in 1..Len(delivered)}

\* The frames of stream s among the delivered ones, in delivery order.
DeliveredFrom(s) == SelectSeq(delivered, LAMBDA it : it.stream = s)

Spawned == DOMAIN workers # {}
Failed(s) == workers[s].pc = "failed"
AnyFailed == \E s \in DOMAIN workers : Failed(s)
AllEnded == \A s \in DOMAIN workers : workers[s].pc \in {"finished", "failed"}
Blocked(s) ==
    /\ workers[s].pc = "put"
    /\ worker_queue.maxsize > 0
    /\ Len(worker_queue.items) >= worker_queue.maxsize

(***************************************************************************)
(* C1. When the caller iterates to exhaustion and no worker failed, the    *)
(* frames delivered are exactly the pages of all streams, each once: their *)
(* number is k_1 + ... + k_N, none is lost and none is duplicated.         *)
(***************************************************************************)
C1_EveryPageDeliveredOnce ==
    (outcome = "stop" /\ ~AnyFailed) =>
        /\ Len(delivered) = SumPages(Len(streams))
        /\ DeliveredSet = AllItems

C1_Witness ==
    /\ outcome = "stop"
    /\ Len(streams) >= 2
    /\ Len(delivered) >= 3
    /\ \A s \in DOMAIN pages : pages[s] >= 1

(***************************************************************************)
(* C2. Once the caller has closed the generator before exhaustion, the     *)
(* download call eventually returns with no worker thread running.         *)
(***************************************************************************)
C2_CloseLeadsToReturn ==
    (pending = "close") ~> (pc = "exited" /\ AllEnded)

(***************************************************************************)
(* C3. Once a worker has failed, and unless the caller closes instead of   *)
(* pulling, the error is eventually raised to the caller with every worker *)
(* ended and the download call terminated.                                 *)
(***************************************************************************)
C3_FailureLeadsToError ==
    (AnyFailed /\ pending # "close") ~>
        ((outcome = "error" /\ pc = "exited" /\ AllEnded) \/ pending = "close")

(***************************************************************************)
(* C4. Whenever the download call has exited after spawning workers        *)
(* (normal end, propagated error or close), every worker has ended.        *)
(***************************************************************************)
C4_NoExitWhileWorkerRuns ==
    (pc = "exited" /\ Spawned) => AllEnded

C4_Witness ==
    /\ pc = "exited"
    /\ Len(streams) >= 2
    /\ outcome = "closed"
    /\ \E s \in DOMAIN workers : workers[s].page < pages[s]

(***************************************************************************)
(* C5. A failed worker that pushed m items contributes at most m delivered *)
(* frames; a download that ends by itself after a worker failed ends with  *)
(* the error; once the cancellation flag is set no further frame is        *)
(* delivered, so what is left in the queue is discarded.                   *)
(***************************************************************************)
C5_NoDeliveryPastFailure ==
    /\ [](\A s \in DOMAIN workers :
            Failed(s) => Len(DeliveredFrom(s)) <= workers[s].pushed)
    /\ []((pc = "exited" /\ AnyFailed /\ pending # "close") =>
            (outcome = "error" /\ Failed(raised)))
    /\ [][download_state.done => delivered' = delivered]_vars

C5_Witness ==
    /\ outcome = "error"
    /\ workers[raised].pushed >= 1
    /\ Len(worker_queue.items) >= 1
    /\ Len(delivered) >= 1

(***************************************************************************)
(* C6. The queue never holds more items than its capacity (never more than *)
(* one when max_queue_size is 1), and while it is full a worker that wants *)
(* to push stays where it is and no queued item is dropped or overwritten: *)
(* the queue changes only by the consumer taking its head.                 *)
(***************************************************************************)
C6_QueueWithinCapacity ==
    /\ [](worker_queue.maxsize > 0 =>
            Len(worker_queue.items) <= worker_queue.maxsize)
    /\ [](max_queue_size = IntArg(1) => Len(worker_queue.items) <= 1)
    /\ [][(worker_queue.maxsize > 0 /\
           Len(worker_queue.items) >= worker_queue.maxsize) =>
            /\ \A s \in DOMAIN workers :
                 workers[s].pc = "put" => workers'[s] = workers[s]
            /\ \/ worker_queue'.items = worker_queue.items
               \/ worker_queue'.items = Tail(worker_queue.items)]_vars

C6_Witness ==
    /\ max_queue_size = IntArg(1)
    /\ Len(streams) >= 2
    /\ Len(worker_queue.items) = 1
    /\ \A s \in DOMAIN workers : Blocked(s)

(***************************************************************************)
(* C7. With preserve_order the session is requested with                   *)
(* max_stream_count = 1; with one stream the delivered frames are always   *)
(* the first pages of the stream in page order, and all of them when the   *)
(* sequence ends normally.                                                 *)
(***************************************************************************)
C7_SingleStreamOrder ==
    /\ (preserve_order /\ session_calls > 0) => requested_streams = 1
    /\ Len(streams) = 1 =>
         /\ Len(delivered) <= pages[1]
         /\ delivered = [i \in 1..Len(delivered) |-> Item(1, i)]
         /\ outcome = "stop" => Len(delivered) = pages[1]

C7_Witness ==
    /\ preserve_order
    /\ Len(streams) = 1
    /\ outcome = "stop"
    /\ delivered = <<Item(1, 1), Item(1, 2)>>

(***************************************************************************)
(* C8. With more than one stream, the delivered frames of each stream,     *)
(* taken out of the delivered sequence, are in the stream's page order.    *)
(***************************************************************************)
C8_IntraStreamFifo ==
    Len(streams) > 1 =>
        \A s \in DOMAIN pages :
            DeliveredFrom(s) = [i \in 1..Len(DeliveredFrom(s)) |-> Item(s, i)]

C8_Witness ==
    /\ Len(streams) > 1
    /\ Len(delivered) >= 3
    /\ delivered[1] = Item(2, 1)
    /\ delivered[2] = Item(1, 1)
    /\ delivered[3] = Item(2, 2)

(***************************************************************************)
(* C9. When create_read_session answers with zero streams, the sequence    *)
(* ends at once without error and without a frame, and no flag, queue or   *)
(* worker has been created.                                                *)
(***************************************************************************)
C9_EmptySession ==
    (session_calls > 0 /\ outcome # "session_error" /\ Len(streams) = 0) =>
        /\ pc = "exited"
        /\ outcome = "stop"
        /\ delivered = <<>>
        /\ ~download_state.created
        /\ ~worker_queue.created
        /\ workers = <<>>

C9_Witness ==
    /\ session_calls = 1
    /\ Len(streams) = 0
    /\ outcome = "stop"

(***************************************************************************)
(* C10. A table_id with a partition ('$') or snapshot ('@') qualifier      *)
(* ends the call with ValueError: create_read_session is never called and  *)
(* no worker is spawned.                                                   *)
(***************************************************************************)
C10_QualifierRejectedFirst ==
    (\E i \in 1..Len(table_id) : table_id[i] \in {"$", "@"}) =>
        /\ session_calls = 0
        /\ workers = <<>>
        /\ pc \in {"start", "validate", "exited"}
        /\ outcome \in {"none", "ValueError", "closed"}
        /\ outcome = "closed" => pending = "none"
        /\ (pc = "exited" /\ outcome # "closed") => outcome = "ValueError"

C10_Witness ==
    /\ table_id[Len(table_id)] = "@"
    /\ table_id[1] = "t"
    /\ outcome = "ValueError"
    /\ session_calls = 0

(***************************************************************************)
(* C11. An error raised to the caller while draining is the error captured *)
(* by a worker that failed; a failed stream is never retried: its worker   *)
(* stays failed, fetches no further page, and the set of submitted workers *)
(* never changes after the spawn.                                          *)
(***************************************************************************)
C11_ErrorFromFailedWorkerNoRetry ==
    /\ [](raised # 0 =>
            /\ raised \in DOMAIN workers
            /\ workers[raised].pc = "failed"
            /\ pending = "error")
    /\ [](outcome = "error" => raised # 0)
    /\ [][\A s \in DOMAIN workers :
            /\ s \in DOMAIN workers'
            /\ workers[s].pc = "failed" => workers'[s] = workers[s]]_vars
    /\ [][raised # 0 => raised' = raised]_vars

C11_Witness ==
    /\ outcome = "error"
    /\ Len(streams) >= 2
    /\ workers[raised].pc = "failed"
    /\ workers[raised].page < pages[raised]
    /\ \E s \in DOMAIN workers : s # raised /\ workers[s].pc = "finished"

(***************************************************************************)
(* C12. A close() by the caller before exhaustion is a cancellation, not   *)
(* an error: the finally block runs, the flag is set before the pool       *)
(* shutdown is waited for, no worker error is re-raised because of it, no  *)
(* further frame is delivered, and when the call returns it returns from   *)
(* close() with every worker ended, whether or not a worker had failed.    *)
(***************************************************************************)
C12_CloseIsCancellation ==
    /\ [](pending = "close" =>
            /\ pc \in {"finally", "shutdown", "exited"}
            /\ pc \in {"shutdown", "exited"} => download_state.done
            /\ raised = 0
            /\ outcome \in {"none", "closed"}
            /\ pc = "exited" => (outcome = "closed" /\ AllEnded))
    /\ [][pending = "close" =>
            (pending' = "close" /\ delivered' = delivered)]_vars

C12_Witness ==
    /\ pending = "close"
    /\ outcome = "closed"
    /\ download_state.done
    /\ Len(streams) >= 2
    /\ AnyFailed
    /\ Len(delivered) < SumPages(Len(streams))

(***************************************************************************)
(* C13. When create_read_session raises, the call ends at once with that   *)
(* error: no flag, queue or worker has been created and no frame has been  *)
(* yielded.                                                                *)
(***************************************************************************)
C13_SessionErrorBeforeSpawn ==
    outcome = "session_error" =>
        /\ pc = "exited"
        /\ pending = "none"
        /\ session_calls = 1
        /\ streams = <<>>
        /\ workers = <<>>
        /\ not_done = <<>>
        /\ ~download_state.created
        /\ ~worker_queue.created
        /\ delivered = <<>>

C13_Witness ==
    /\ outcome = "session_error"
    /\ session_calls = 1
    /\ requested_streams = 0
    /\ \A i \in 1..Len(table_id) : table_id[i] = "t"

(***************************************************************************)
(* C14. The sequence ends normally only if every worker returned without   *)
(* error: the drain loop is left only with not_done empty and every worker *)
(* finished, and a worker leaves not_done only when _nowait, having seen   *)
(* it ended, returns, a failed one only with an error re-raised.           *)
(***************************************************************************)
InNotDone(s) == \E i \in 1..Len(not_done) : not_done[i] = s

C14_NoSuppressedFailure ==
    /\ [](outcome = "stop" =>
            \A s \in DOMAIN workers : workers[s].pc = "finished")
    /\ []((pc \in {"drain", "yield_drain"} \/ pending = "return") =>
            /\ not_done = <<>>
            /\ \A s \in DOMAIN workers : workers[s].pc = "finished")
    /\ [](\A s \in DOMAIN workers :
            (workers[s].pc # "finished" /\ pending # "error") => InNotDone(s))
    /\ [][\A s \in DOMAIN workers :
            (InNotDone(s) /\ \A i \in 1..Len(not_done') : not_done'[i] # s) =>
                /\ pc \in {"sweep", "nowait"}
                /\ workers[s].pc \in {"finished", "failed"}
                /\ workers[s].pc = "failed" => pending' = "error"]_vars

C14_Witness ==
    /\ outcome = "stop"
    /\ pending = "return"
    /\ not_done = <<>>
    /\ Len(streams) >= 2
    /\ \A s \in DOMAIN workers :
         workers[s].pc = "finished" /\ workers[s].pushed >= 1

(***************************************************************************)
(* C15, as claimed. A worker that begins a loop iteration with the flag    *)
(* already set returns with no further side effect: in particular it      *)
(* takes no further page from its stream.                                  *)
(***************************************************************************)
C15_NoFetchOnceFlagSet ==
    [][\A s \in DOMAIN workers :
        (download_state.done /\ workers[s].pc = "fetch") =>
            workers'[s].page = workers[s].page]_vars

(***************************************************************************)
(* C15, amended. In each iteration the worker first takes the next page    *)
(* and then tests the flag, before decoding: a worker that begins an       *)
(* iteration with the flag set fetches at most one more page (or finds the *)
(* stream exhausted, or fails in the fetch), then returns at the test      *)
(* without decoding or pushing.                                            *)
(***************************************************************************)
C15_FlagTestedAfterFetch ==
    [][\A s \in DOMAIN workers :
        /\ (download_state.done /\ workers[s].pc = "fetch") =>
              /\ workers'[s].pc \in {"fetch", "check", "finished", "failed"}
              /\ workers'[s].page <= workers[s].page + 1
              /\ workers'[s].pushed = workers[s].pushed
        /\ (download_state.done /\ workers[s].pc = "check") =>
              /\ workers'[s].pc \in {"check", "finished"}
              /\ workers'[s].page = workers[s].page
              /\ workers'[s].pushed = workers[s].pushed]_vars

C15_Witness ==
    /\ download_state.done
    /\ \E s \in DOMAIN workers :
         /\ workers[s].pc = "finished"
         /\ workers[s].page = workers[s].pushed + 1
         /\ workers[s].page <= pages[s]
         /\ workers[s].pushed >= 1

(***************************************************************************)
(* C16. Once the flag is set, a worker that is not already holding a       *)
(* decoded item never gets to a put again (it returns when it reads the    *)
(* flag), and a worker holding one pushes that single item at most: so     *)
(* each worker pushes at most one item after the flag became true, and     *)
(* none after it has read the flag as true.                                *)
(***************************************************************************)
C16_AtMostOneLatePush ==
    [][download_state.done =>
        \A s \in DOMAIN workers :
            /\ workers[s].pc # "put" =>
                  /\ workers'[s].pushed = workers[s].pushed
                  /\ workers'[s].pc # "put"
            /\ workers[s].pc = "put" =>
                  \/ workers'[s] = workers[s]
                  \/ /\ workers'[s].pushed = workers[s].pushed + 1
                     /\ workers'[s].pc = "fetch"
            /\ workers[s].pc = "finished" => workers'[s] = workers[s]]_vars

C16_Witness ==
    /\ download_state.done
    /\ pending = "close"
    /\ Len(worker_queue.items) >= 1
    /\ \E s \in DOMAIN workers :
         /\ workers[s].pc = "finished"
         /\ workers[s].page = workers[s].pushed + 1
         /\ worker_queue.items[Len(worker_queue.items)] =
                Item(s, workers[s].pushed)

(***************************************************************************)
(* C17. The flag starts false and is false until the finally block runs;   *)
(* it changes only in the coordinator's step of line 734, in which no      *)
(* worker moves; once true it stays true.                                  *)
(***************************************************************************)
C17_FlagMonotonicSingleWriter ==
    /\ []((~download_state.created \/ pending = "none") =>
            ~download_state.done)
    /\ [][download_state.done => download_state'.done]_vars
    /\ [][download_state.created => download_state'.created]_vars
    /\ [][download_state'.done # download_state.done =>
            /\ pc = "finally"
            /\ pc' = "shutdown"
            /\ pending # "none"
            /\ workers' = workers]_vars

C17_Witness ==
    /\ download_state.done
    /\ pc = "exited"
    /\ pending = "error"
    /\ \E s \in DOMAIN workers :
         workers[s].pc = "finished" /\ workers[s].page > workers[s].pushed

(***************************************************************************)
(* C18. On the success path (no failure, the caller keeps pulling), once   *)
(* a session of N >= 1 streams is granted, for every queue capacity, every *)
(* worker                                                                  *)
(* eventually finishes and the sequence eventually ends normally with the  *)
(* call returned: coordinator and workers never wait on each other         *)
(* forever.                                                                *)
(***************************************************************************)
C18_SuccessPathTerminates ==
    (pc = "spawn" /\ Len(streams) >= 1) ~>
        (/\ pc = "exited"
         /\ outcome = "stop"
         /\ \A s \in DOMAIN workers : workers[s].pc = "finished")

C18_Witness ==
    /\ outcome = "stop"
    /\ Len(streams) >= 2
    /\ worker_queue.maxsize = 1
    /\ Len(delivered) >= 3
    /\ \A s \in DOMAIN workers : workers[s].pc = "finished"

(***************************************************************************)
(* C19. In the drain loop the sweep with its re-raise comes before the get *)
(* and each get yields one frame at most, so that once a worker has raised *)
(* at most one more frame is delivered. A frame is delivered in the loop   *)
(* only by a get that follows a whole sweep; with a failed worker, from    *)
(* the yield the generator only goes back to the sweep (or is closed); a   *)
(* sweep that starts with a failed worker has it among the futures still   *)
(* to poll or those seen ended until it re-raises, and never gets to the   *)
(* get; from the finally block on nothing is delivered. So only a worker   *)
(* that fails after its poll, or during the get, lets one frame through.   *)
(***************************************************************************)
SeenFailed ==
    \E s \in DOMAIN workers :
        /\ Failed(s)
        /\ \/ \E i \in 1..Len(nowait.futures) : nowait.futures[i] = s
           \/ \E i \in 1..Len(nowait.done) : nowait.done[i] = s

C19_AtMostOneFrameAfterFailure ==
    /\ [][(delivered' # delivered /\ pc = "get") =>
            /\ Len(delivered') = Len(delivered) + 1
            /\ pc' = "yield_loop"]_vars
    /\ [][(pc' = "get" /\ pc # "get") =>
            (pc \in {"sweep", "nowait"} /\ delivered' = delivered)]_vars
    /\ [][(pc' = "nowait" /\ pc # "nowait") =>
            /\ pc = "sweep"
            /\ nowait'.futures = Tail(not_done)
            /\ nowait'.done \o nowait'.not_done = <<Head(not_done)>>]_vars
    /\ [](AnyFailed => pc \notin {"drain", "yield_drain"})
    /\ [][AnyFailed =>
            /\ delivered' # delivered => (pc = "get" /\ pc' = "yield_loop")
            /\ pc = "yield_loop" => pc' \in {"yield_loop", "sweep", "finally"}
            /\ pc = "sweep" =>
                 \/ pc' = "sweep"
                 \/ pc' = "nowait" /\ SeenFailed'
                 \/ pc' = "finally" /\ pending' = "error" /\ Failed(raised')
            /\ pc \in {"finally", "shutdown", "exited"} =>
                 /\ pc' \in {"finally", "shutdown", "exited"}
                 /\ delivered' = delivered]_vars
    /\ [][(pc = "nowait" /\ SeenFailed) =>
            \/ pc' = "nowait" /\ SeenFailed'
            \/ pc' = "finally" /\ pending' = "error" /\ Failed(raised')]_vars

C19_Witness ==
    /\ AnyFailed
    /\ pending = "none"
    /\ pc = "yield_loop"
    /\ Len(delivered) >= 2
    /\ Len(worker_queue.items) >= 1

(***************************************************************************)
(* C20. The capacity of the relay queue: the number of streams of the      *)
(* session when max_queue_size is left at its default, unbounded (no put   *)
(* ever blocks) when it is None, and the given value when it is a positive *)
(* integer.                                                                *)
(***************************************************************************)
C20_QueueCapacityPolicy ==
    worker_queue.created =>
        /\ max_queue_size.kind = "default" =>
              /\ worker_queue.maxsize = Len(streams)
              /\ Len(worker_queue.items) <= Len(streams)
        /\ max_queue_size.kind = "none" =>
              /\ worker_queue.maxsize <= 0
              /\ \A s \in DOMAIN workers : ~Blocked(s)
        /\ (max_queue_size.kind = "int" /\ max_queue_size.val > 0) =>
              /\ worker_queue.maxsize = max_queue_size.val
              /\ Len(worker_queue.items) <= max_queue_size.val

C20_Witness ==
    /\ max_queue_size.kind = "default"
    /\ Len(streams) = 2
    /\ Len(worker_queue.items) = 2
    /\ \E s \in DOMAIN workers : Blocked(s)

(***************************************************************************)
(* C21, as claimed. An explicit max_queue_size that is zero or negative is *)
(* rejected as invalid input: no queue is created and no worker spawned.   *)
(***************************************************************************)
NonPositiveOverride == max_queue_size.kind = "int" /\ max_queue_size.val <= 0

C21_NonPositiveRejected ==
    NonPositiveOverride =>
        /\ ~worker_queue.created
        /\ workers = <<>>
        /\ outcome \notin {"stop", "error"}

(***************************************************************************)
(* C21, amended. An explicit max_queue_size that is zero or negative is    *)
(* not validated: it is handed to queue.Queue as it is, which makes the    *)
(* queue unbounded (no put blocks), one worker per stream is spawned as    *)
(* for any other value, and ValueError is raised only for a qualified      *)
(* table_id.                                                               *)
(***************************************************************************)
C21_NonPositiveMeansUnbounded ==
    NonPositiveOverride =>
        /\ outcome = "ValueError" =>
              \E i \in 1..Len(table_id) : table_id[i] \in {"$", "@"}
        /\ worker_queue.created =>
              /\ worker_queue.maxsize = max_queue_size.val
              /\ DOMAIN workers = 1..Len(streams)
              /\ \A s \in DOMAIN workers : ~Blocked(s)

C21_Witness ==
    /\ max_queue_size = IntArg(-1)
    /\ Len(streams) = 2
    /\ Len(worker_queue.items) >= Len(streams)
    /\ \E s \in DOMAIN workers : workers[s].pc = "put"

(***************************************************************************)
(* C22. From the spawn on there is one submitted worker per stream of the  *)
(* session, each stream is read by exactly one worker, and this set never  *)
(* changes; the coordinator's list of handles holds each worker at most    *)
(* once and lets go only of workers that have ended.                       *)
(***************************************************************************)
PastSpawn ==
    pc \in {"sweep", "nowait", "get", "yield_loop", "drain", "yield_drain",
            "finally", "shutdown"} \/ (pc = "exited" /\ worker_queue.created)

C22_OneWorkerPerStream ==
    /\ [](PastSpawn =>
            /\ Cardinality(DOMAIN workers) = Len(streams)
            /\ \A i \in 1..Len(streams) :
                 Cardinality({w \in DOMAIN workers :
                                 workers[w].stream = streams[i]}) = 1
            /\ \A i, j \in 1..Len(not_done) :
                 not_done[i] = not_done[j] => i = j
            /\ \A i \in 1..Len(not_done) : not_done[i] \in DOMAIN workers
            /\ \A w \in DOMAIN workers :
                 InNotDone(w) \/ workers[w].pc \in {"finished", "failed"})
    /\ [](~PastSpawn => workers = <<>>)
    /\ [][PastSpawn =>
            /\ DOMAIN workers' = DOMAIN workers
            /\ streams' = streams
            /\ \A w \in DOMAIN workers :
                 workers'[w].stream = workers[w].stream]_vars

C22_Witness ==
    /\ Len(streams) = 2
    /\ pc = "get"
    /\ not_done = <<2>>
    /\ workers[1].pc = "finished"
    /\ workers[1].pushed >= 1
    /\ workers[2].pc = "put"

(***************************************************************************)
(* C23. With max_queue_size=None no put ever blocks; so once the flag is   *)
(* set, on whichever exit path (normal end, worker error, close), a worker *)
(* takes at most one more page and pushes at most the item it holds, every *)
(* worker ends, and the pool shutdown completes: the call returns.         *)
(***************************************************************************)
C23_UnboundedShutdownCompletes ==
    /\ [](\A s \in DOMAIN workers : ~Blocked(s))
    /\ [][download_state.done =>
            \A s \in DOMAIN workers :
                /\ workers'[s].page <= workers[s].page + 1
                /\ workers'[s].pushed <= workers[s].pushed + 1
                /\ workers[s].pc \in {"fetch", "check"} =>
                      /\ workers'[s].pc # "put"
                      /\ workers'[s].pushed = workers[s].pushed
                /\ workers[s].pc = "check" =>
                      workers'[s].page = workers[s].page]_vars
    /\ download_state.done ~> (pc = "exited" /\ AllEnded)

C23_Witness ==
    /\ max_queue_size = None
    /\ pc = "exited"
    /\ outcome = "closed"
    /\ Len(streams) >= 2
    /\ Len(worker_queue.items) >= Len(streams)
    /\ \E s \in DOMAIN workers :
         workers[s].pc = "finished" /\ workers[s].page > workers[s].pushed

(***************************************************************************)
(* C24. With a bounded queue of capacity C and N workers, the items in the *)
(* queue plus the items held by workers that have decoded a page and not   *)
(* yet pushed it never exceed C + N: the queue holds at most C and each    *)
(* worker holds at most one.                                               *)
(***************************************************************************)
C24_InFlightBounded ==
    worker_queue.maxsize > 0 =>
        /\ Len(worker_queue.items)
             + Cardinality({s \in DOMAIN workers : workers[s].pc = "put"})
             <= worker_queue.maxsize + Len(streams)
        /\ \A s \in DOMAIN workers :
             /\ workers[s].page - workers[s].pushed \in {0, 1}
             /\ workers[s].pc = "put" =>
                  workers[s].page = workers[s].pushed + 1
        /\ Len(worker_queue.items)
             + Cardinality({s \in DOMAIN workers :
                              workers[s].page > workers[s].pushed})
             <= worker_queue.maxsize + Len(streams)

C24_Witness ==
    /\ worker_queue.maxsize >= 2
    /\ Len(streams) >= 2
    /\ Len(worker_queue.items) = worker_queue.maxsize
    /\ \A s \in DOMAIN workers : workers[s].pc = "put"
    /\ Len(worker_queue.items)
         + Cardinality({s \in DOMAIN workers : workers[s].pc = "put"})
         = worker_queue.maxsize + Len(streams)

====
